---- MODULE Spec2Model ----
(***************************************************************************)
(* Model of the harvest / load / merge / save pipeline of the five NBUV    *)
(* merge scripts (nbuv_irbis_scrape, nbuv_oai, nbuv_scrape_html, nbuv_sru,  *)
(* nbuv_z3950) over the shared master store: the CSV file                  *)
(* ukrainian_literature_1700-2024.csv and the SQLite table `combined`.     *)
(*                                                                         *)
(* Strings are sequences of characters over a small alphabet; a date text  *)
(* is a sequence of digit runs (each a sequence of digits) separated by    *)
(* non-word characters.                                                    *)
(***************************************************************************)
EXTENDS Integers, Sequences, FiniteSets, TLC

VARIABLES csv, db, fetched, pc, script, new, master, combined, err, pre,
          pager, retry, wiki

vars == <<csv, db, fetched, pc, script, new, master, combined, err, pre,
          pager, retry, wiki>>

\* ------------------------------------------------------------------ bounds
\* Records fetched from upstream over all runs of a behaviour.
MaxFetch == 3

\* ------------------------------------------------------------- constants
YEAR_MIN == 1700
YEAR_MAX == 2024
\* None / NaN / <NA> in a year column.
Null == -1

\* NaN in a string column (what read_csv yields for an empty field).
NaN == <<"<NaN>">>

Scripts == {"irbis", "oai", "html", "sru", "z3950"}

\* Runs of a script; the sequential specification uses SeqProcs only.
AllProcs == {1, 2}
SeqProcs == {1}

\* ------------------------------------------------------- string helpers
Whitespace == {" "}
\* the characters of rstrip(" /.:;") in nbuv_z3950.parse and nbuv_oai.parse_marcxml
PunctDot == {" ", "/", ".", ":", ";"}
\* the characters of strip(" /:;") in nbuv_sru.parse_marcxml
PunctNoDot == {" ", "/", ":", ";"}

RECURSIVE RStrip(_, _)
RStrip(s, cs) ==
    IF s = <<>> THEN <<>>
    ELSE IF s[Len(s)] \in cs THEN RStrip(SubSeq(s, 1, Len(s) - 1), cs)
    ELSE s

RECURSIVE LStrip(_, _)
LStrip(s, cs) ==
    IF s = <<>> THEN <<>>
    ELSE IF s[1] \in cs THEN LStrip(Tail(s), cs)
    ELSE s

Strip(s, cs) == LStrip(RStrip(s, cs), cs)

\* unidecode: ASCII is kept, Cyrillic is mapped to a Latin approximation.
\* "<be>" / "<BE>" stand for the Cyrillic small / capital letter be,
\* "<drama>" for the Cyrillic word the genre filter of nbuv_oai looks for.
UnidecodeChar(c) ==
    CASE c = "<be>" -> "b"
      [] c = "<BE>" -> "B"
      [] c = "<drama>" -> "drama"
      [] OTHER -> c

LowerChar(c) ==
    CASE c = "A" -> "a"
      [] c = "B" -> "b"
      [] c = "<BE>" -> "<be>"
      [] OTHER -> c

Unidecode(s) == [i \in DOMAIN s |-> UnidecodeChar(s[i])]
Lower(s) == [i \in DOMAIN s |-> LowerChar(s[i])]

normal_key(author, title) ==
    Strip(Lower(Unidecode(author)), Whitespace) \o <<"|">>
        \o Strip(Lower(Unidecode(title)), Whitespace)

\* nbuv_irbis_scrape._s: NaN / None become the empty string.
CleanStr(val) == IF val = NaN THEN <<>> ELSE val

irbis_key(author, title) == normal_key(CleanStr(author), CleanStr(title))

\* --------------------------------------------------------- year helpers
RECURSIVE TokInt(_)
TokInt(t) ==
    IF t = <<>> THEN 0
    ELSE TokInt(SubSeq(t, 1, Len(t) - 1)) * 10 + t[Len(t)]

\* index of the first TRUE of a sequence of matches (re.search), or 0
FirstMatch(bs) ==
    IF \E i \in DOMAIN bs : bs[i]
    THEN CHOOSE i \in DOMAIN bs : bs[i] /\ \A j \in 1..(i - 1) : ~bs[j]
    ELSE 0

\* \b(17\d{2}|18\d{2}|19\d{2}|20[0-2]\d)\b on one digit run
WindowRe(t) ==
    /\ Len(t) = 4
    /\ \/ t[1] = 1 /\ t[2] \in {7, 8, 9}
       \/ t[1] = 2 /\ t[2] = 0 /\ t[3] \in {0, 1, 2}

\* (\d{4}) of nbuv_sru: the first four digits of a run of at least four
FourDigitsRe(t) == Len(t) >= 4

\* ^\d{4}$ of nbuv_irbis_scrape.extract_hits: a span that is exactly four digits
ExactFourRe(t) == Len(t) = 4

\* ------------------------------------------------------ upstream records
\* What an upstream system returns for one record: the title and author
\* texts, the digit runs of the date field (MARC 260$c, the list page's
\* year spans, the "Data:" label block), and the digit runs of the whole
\* record page (the fallback text of nbuv_scrape_html.extract_record).
Raw(t, a, d, pg) == [title |-> t, author |-> a, date |-> d, page |-> pg]

Y1900 == <<1, 9, 0, 0>>
Y1901 == <<1, 9, 0, 1>>
Y2025 == <<2, 0, 2, 5>>

RawRecords ==
    { Raw(<<"a">>, <<"b">>, <<Y1900>>, <<Y1900>>),
      Raw(<<"a">>, <<"b">>, <<Y1901>>, <<Y1901>>),
      Raw(<<"a", " ", "/">>, <<"b">>, <<Y1900>>, <<Y1900>>),
      Raw(<<"a">>, <<>>, <<Y1900>>, <<Y1900>>),
      Raw(<<"c">>, <<"b">>, <<Y2025>>, <<Y2025>>),
      Raw(<<"c">>, <<"b">>, <<>>, <<>>) }

\* --------------------------------------------------------------- rows
Row(t, a, yw, yp, k) ==
    [title |-> t, author |-> a, year_written |-> yw, year_published |-> yp,
     work_key |-> k]

\* a persisted row: the four columns, work_key dropped
Persisted(t, a, yw, yp) ==
    [title |-> t, author |-> a, year_written |-> yw, year_published |-> yp]

\* --------------------------------------------------------------- parsers
\* Each parser returns <<row>> for an accepted record and <<>> for one it
\* drops.

\* nbuv_z3950.parse: the key is computed from the unstripped author and title
z3950_parse(r) ==
    LET i == FirstMatch([k \in DOMAIN r.date |-> WindowRe(r.date[k])]) IN
    IF r.title = <<>> \/ r.author = <<>> THEN <<>>
    ELSE IF i = 0 THEN <<>>
    ELSE << Row(RStrip(r.title, PunctDot), RStrip(r.author, PunctDot),
                Null, TokInt(r.date[i]), normal_key(r.author, r.title)) >>

\* the coarse genre filter of nbuv_oai.parse_marcxml
IsDrama(title) == \E i \in DOMAIN title : Lower(title)[i] = "<drama>"

oai_parse_marcxml(r) ==
    LET title == RStrip(r.title, PunctDot)
        i == FirstMatch([k \in DOMAIN r.date |-> WindowRe(r.date[k])])
    IN
    IF title = <<>> \/ r.author = <<>> THEN <<>>
    ELSE IF i = 0 THEN <<>>
    ELSE IF ~(YEAR_MIN <= TokInt(r.date[i]) /\ TokInt(r.date[i]) <= YEAR_MAX) THEN <<>>
    ELSE IF IsDrama(title) THEN <<>>
    ELSE << Row(title, r.author, Null, TokInt(r.date[i]), normal_key(r.author, title)) >>

\* nbuv_sru.parse_marcxml followed by the work_key column of fetch_nbuv
sru_parse_marcxml(r) ==
    LET i == FirstMatch([k \in DOMAIN r.date |-> FourDigitsRe(r.date[k])])
        title == Strip(r.title, PunctNoDot)
        author == Strip(r.author, PunctNoDot)
    IN
    IF r.title = <<>> THEN <<>>
    ELSE IF r.author = <<>> THEN <<>>
    ELSE IF i = 0 THEN <<>>
    ELSE << Row(title, author, Null, TokInt(SubSeq(r.date[i], 1, 4)),
                normal_key(author, title)) >>

\* one record row of nbuv_irbis_scrape.extract_hits
irbis_extract_hit(r) ==
    LET title == Strip(r.title, Whitespace)
        author == Strip(r.author, Whitespace)
        i == FirstMatch([k \in DOMAIN r.date |-> ExactFourRe(r.date[k])])
        year == IF i = 0 THEN Null ELSE TokInt(r.date[i])
    IN
    IF title = <<>> THEN <<>>
    ELSE << Row(title, author, Null,
                IF year = Null \/ year = 0 THEN Null ELSE year,
                irbis_key(author, title)) >>

\* nbuv_scrape_html.extract_record and the row collect_rows builds from it
html_extract_record(r) ==
    LET title == Strip(r.title, Whitespace)
        author == Strip(r.author, Whitespace)
        i == FirstMatch([k \in DOMAIN r.date |-> WindowRe(r.date[k])])
        j == FirstMatch([k \in DOMAIN r.page |-> WindowRe(r.page[k])])
        year == IF i # 0 THEN TokInt(r.date[i])
                ELSE IF j # 0 THEN TokInt(r.page[j])
                ELSE Null
    IN
    IF title = <<>> THEN <<>>
    ELSE << Row(title, author, Null, IF year = Null THEN 0 ELSE year,
                normal_key(author, title)) >>

Parse(s, r) ==
    CASE s = "z3950" -> z3950_parse(r)
      [] s = "oai" -> oai_parse_marcxml(r)
      [] s = "sru" -> sru_parse_marcxml(r)
      [] s = "irbis" -> irbis_extract_hit(r)
      [] s = "html" -> html_extract_record(r)

\* ---------------------------------------------------------- data frames
\* A DataFrame: its rows, and whether it has a work_key column at all
\* (pd.DataFrame() and pd.DataFrame([]) have no columns).
Frame(k, rows) == [hasKey |-> k, rows |-> rows]

NoColumns == Frame(FALSE, <<>>)

\* ------------------------------------------------------ persisted store
AbsentFile == [kind |-> "absent", rows |-> <<>>]
\* a file read_csv cannot parse into the four columns with Int64 years
CorruptFile == [kind |-> "corrupt", rows |-> <<>>]
\* a file of size zero
EmptyFile == [kind |-> "empty", rows |-> <<>>]
Table(rows) == [kind |-> "table", rows |-> rows]

\* to_csv: NaN is written as an empty field, like the empty string
WriteField(x) == IF x = NaN THEN <<>> ELSE x

\* read_csv: an empty field is read as NaN
ReadField(x) == IF x = <<>> THEN NaN ELSE x

\* df.to_csv(...) without the drop: the work_key column is written too
ToCsvKeepsKey(rows) ==
    Table([i \in DOMAIN rows |->
        Row(WriteField(rows[i].title), WriteField(rows[i].author),
            rows[i].year_written, rows[i].year_published, rows[i].work_key)])

\* df.drop(columns="work_key").to_csv(...)
ToCsv(rows) ==
    Table([i \in DOMAIN rows |->
        Persisted(WriteField(rows[i].title), WriteField(rows[i].author),
                  rows[i].year_written, rows[i].year_published)])

\* df.drop(columns="work_key").to_sql("combined", ..., if_exists="replace")
ToSql(rows) ==
    Table([i \in DOMAIN rows |->
        Persisted(rows[i].title, rows[i].author,
                  rows[i].year_written, rows[i].year_published)])

\* pd.read_csv(CSV_PATH, dtype={...Int64...}) of a parseable file
ReadCsv(rows) ==
    [i \in DOMAIN rows |->
        Persisted(ReadField(rows[i].title), ReadField(rows[i].author),
                  rows[i].year_written, rows[i].year_published)]

HasNaN(rows) ==
    \E i \in DOMAIN rows : ReadCsv(rows)[i].title = NaN \/ ReadCsv(rows)[i].author = NaN

\* the work_key column load_master adds to the rows read
WithKeys(s, rows) ==
    [i \in DOMAIN rows |->
        LET r == ReadCsv(rows)[i] IN
        Row(r.title, r.author, r.year_written, r.year_published,
            IF s = "irbis" THEN irbis_key(r.author, r.title)
            ELSE normal_key(r.author, r.title))]

\* load_master certainly raises: the file cannot be parsed, or (outside
\* nbuv_irbis_scrape, whose key goes through _s) unidecode is handed a NaN.
LoadMustRaise(s, c) ==
    \/ c.kind = "corrupt"
    \/ c.kind = "empty" /\ s # "irbis"
    \/ c.kind = "table" /\ s # "irbis" /\ HasNaN(c.rows)

\* A header-only file outside nbuv_irbis_scrape: df.apply(..., axis=1) of a
\* frame without rows returns a frame, and assigning it to the work_key
\* column raises or not with the pandas version.
LoadMayRaise(s, c) == c.kind = "table" /\ s # "irbis" /\ c.rows = <<>>

LoadRaised == [raised |-> TRUE, frame |-> NoColumns]
Loaded(f) == [raised |-> FALSE, frame |-> f]

\* the outcomes of load_master() of script s on the file c
load_master(s, c) ==
    IF LoadMustRaise(s, c) THEN {LoadRaised}
    ELSE IF LoadMayRaise(s, c) THEN {LoadRaised, Loaded(Frame(TRUE, <<>>))}
    ELSE IF c.kind = "table" /\ c.rows # <<>> THEN {Loaded(Frame(TRUE, WithKeys(s, c.rows)))}
    ELSE IF s = "irbis" THEN {Loaded(NoColumns)}
    ELSE {Loaded(Frame(TRUE, <<>>))}

\* ---------------------------------------------------------------- merge
\* na_position="first": null before every value
YearLessNaFirst(a, b) == b # Null /\ (a = Null \/ a < b)

\* a sorts strictly before b, null after every value (na_position="last")
YearLess(a, b) == a # Null /\ (b = Null \/ a < b)

\* sort_values(["year_written", "year_published"], na_position="last")
LessWrittenPublished(r1, r2) ==
    \/ YearLess(r1.year_written, r2.year_written)
    \/ /\ r1.year_written = r2.year_written
       /\ YearLess(r1.year_published, r2.year_published)

\* the place x takes in the sorted sequence s: before the first row it is
\* strictly less than (stable)
InsertSorted(s, x) ==
    LET i == FirstMatch([k \in DOMAIN s |-> LessWrittenPublished(x, s[k])]) IN
    IF i = 0 THEN Append(s, x)
    ELSE SubSeq(s, 1, i - 1) \o <<x>> \o SubSeq(s, i, Len(s))

RECURSIVE SortValues(_)
SortValues(rows) ==
    IF rows = <<>> THEN <<>>
    ELSE InsertSorted(SortValues(SubSeq(rows, 1, Len(rows) - 1)), rows[Len(rows)])

\* drop_duplicates("work_key", keep=False): every row of a repeated key goes
DropDuplicatesKeepNone(rows) ==
    SelectSeq(rows, LAMBDA r :
        Cardinality({i \in DOMAIN rows : rows[i].work_key = r.work_key}) = 1)

\* drop_duplicates("work_key", keep="first")
RECURSIVE DropDuplicates(_)
DropDuplicates(rows) ==
    IF rows = <<>> THEN <<>>
    ELSE LET front == DropDuplicates(SubSeq(rows, 1, Len(rows) - 1))
             last == rows[Len(rows)]
         IN IF \E i \in DOMAIN front : front[i].work_key = last.work_key
            THEN front
            ELSE Append(front, last)

RECURSIVE Perms(_)
Perms(S) ==
    IF S = {} THEN {<<>>}
    ELSE UNION {{<<x>> \o t : t \in Perms(S \ {x})} : x \in S}

\* sort_values("year_published"): one column, the default kind "quicksort",
\* which is not stable: any order of the rows that ascends by
\* year_published with nulls last.
SortByPublished(rows) ==
    { [i \in DOMAIN rows |-> rows[q[i]]] : q \in
        { q \in Perms(DOMAIN rows) :
            \A i, j \in DOMAIN rows :
                i < j => ~YearLess(rows[q[j]].year_published, rows[q[i]].year_published) } }

Concat(m, n) == Frame(m.hasKey \/ n.hasKey, m.rows \o n.rows)

\* the merged frames a script may produce from master m and harvest n
\* (the concat / drop_duplicates / sort_values chain of its main)
Merged(s, m, n) ==
    LET rows == Concat(m, n).rows IN
    CASE s = "irbis" -> SortByPublished(DropDuplicates(rows))
      [] s = "sru" -> {DropDuplicates(SortValues(rows))}
      [] OTHER -> {SortValues(DropDuplicates(rows))}

\* ---------------------------------------------------------- initial state
\* A master store left by earlier runs or seeded from the output of
\* wikidata.py (which knows year_written): sorted, one row per key.
\* ------------------------------------- pagination of nbuv_irbis_scrape
\* the safety cap on S21STN
SafetyCap == 40000

\* the ordinals "<b>n.</b>" a list page may show, and the values of the
\* hidden S21STN inputs it may carry
Ordinals == {20, 21, 39999, 40000}
HiddenStarts == {1, 21, 41, 40001}

\* what harvest reads of one list page: whether extract_hits found records,
\* the ordinals and the hidden S21STN values
Pages == [hits : BOOLEAN, indices : SUBSET Ordinals, hidden : SUBSET HiddenStarts]
NoPage == [hits |-> FALSE, indices |-> {}, hidden |-> {}]

Max(S) == CHOOSE x \in S : \A y \in S : y <= x
Min(S) == CHOOSE x \in S : \A y \in S : x <= y

\* next_start as harvest determines it from a page, Null when the fallback
\* finds no hidden S21STN above start_rec
next_start(page, start_rec) ==
    IF page.indices = {}
    THEN LET cands == {v \in page.hidden : v > start_rec}
         IN IF cands = {} THEN Null ELSE Min(cands)
    ELSE Max(page.indices) + 1

\* prev is the S21STN of the previous POST, 0 before the second POST
PagerIdle == [pc |-> "idle", start_rec |-> 1, prev |-> 0, page |-> NoPage]

\* ------------------------------------------------- the retry helpers
\* the default of the parameter tries of wikidata._run_sparql, and the
\* range of the loop of nbuv_scrape_html.get_soup
tries == 3
GetSoupTries == 3

\* what one request does: it answers with status 200, it answers with
\* another status, or it raises (timeout, connection error)
Outcomes == {"200", "404", "503", "timeout"}

\* log holds the outcome of every request made so far by the call
RetryIdle == [pc |-> "idle", fn |-> "none", log |-> <<>>]

\* ------------------------------------------------------- wikidata.py
\* range(1700, 2025, 10): the decade slices of fetch_wikidata
WalkFirst == 1700
WalkStop == 2025
WalkStep == 10

Y1845 == <<1, 8, 4, 5>>
Y1851 == <<1, 8, 5, 1>>
NoDate == <<>>

\* a work of the endpoint: label, author label ("" when it has none), the
\* year of its inception and of its publication date (NoDate when unbound)
Work(t, a, inc, pub) == [title |-> t, author |-> a, inception |-> inc, pubDate |-> pub]

WikiWorks ==
    { Work(<<"a">>, <<"b">>, Y1845, Y1851),
      Work(<<"c", " ">>, <<"b">>, Y1900, Y1901),
      Work(<<"d">>, <<>>, Y1901, NoDate) }

\* the value of a date binding, "1845-01-01T00:00:00Z", as its digit runs
DateValue(y) == <<y, <<0, 1>>, <<0, 1>>>>

\* first_year: None for no value; the first four characters when they are
\* digits; else the first run of four digits
first_year(s) ==
    LET i == FirstMatch([k \in DOMAIN s |-> FourDigitsRe(s[k])]) IN
    IF s = <<>> THEN Null
    ELSE IF i = 0 THEN Null
    ELSE TokInt(SubSeq(s[i], 1, 4))

\* the FILTER of BASE_QUERY for the slice [from, from + 10)
InSlice(w, from) ==
    \/ TokInt(w.inception) >= from /\ TokInt(w.inception) < from + WalkStep
    \/ /\ w.pubDate # NoDate
       /\ TokInt(w.pubDate) >= from /\ TokInt(w.pubDate) < from + WalkStep

\* the row fetch_wikidata builds from one binding
WikiRow(w) ==
    Persisted(Strip(w.title, Whitespace), Strip(w.author, Whitespace),
              first_year(DateValue(w.inception)),
              IF w.pubDate = NoDate THEN Null ELSE first_year(DateValue(w.pubDate)))

\* the rows appended for a list of bindings: a row without both years is skipped
RECURSIVE WikiRows(_)
WikiRows(bs) ==
    IF bs = <<>> THEN <<>>
    ELSE (IF WikiRow(bs[1]).year_written = Null /\ WikiRow(bs[1]).year_published = Null
          THEN <<>> ELSE <<WikiRow(bs[1])>>) \o WikiRows(Tail(bs))

\* data is what the endpoint holds, csv and table the files wikidata.py writes
WikiIdle == [pc |-> "idle", start |-> WalkFirst, data |-> {}, rows |-> <<>>,
             csv |-> AbsentFile, table |-> AbsentFile]


SeedRows ==
    << Persisted(<<"a">>, <<"b">>, 1750, 1901),
       Persisted(<<"d">>, <<"b">>, 1800, 1900) >>

InitialFiles == {AbsentFile, CorruptFile, Table(SeedRows)}

Store == [csv |-> csv, db |-> db]

Init ==
    /\ csv \in InitialFiles
    /\ db = IF csv.kind = "table" THEN Table(ReadCsv(csv.rows)) ELSE AbsentFile
    /\ fetched = 0
    /\ pc = [p \in AllProcs |-> "idle"]
    /\ script = [p \in AllProcs |-> "none"]
    /\ new = [p \in AllProcs |-> NoColumns]
    /\ master = [p \in AllProcs |-> NoColumns]
    /\ combined = [p \in AllProcs |-> NoColumns]
    /\ err = [p \in AllProcs |-> "none"]
    /\ pre = [p \in AllProcs |-> [csv |-> AbsentFile, db |-> AbsentFile]]
    /\ pager = PagerIdle
    /\ retry = RetryIdle
    /\ wiki = WikiIdle

\* ---------------------------------------------------------------- a run
\* One run of script s starts: nothing is read or written yet.
Start(p, s) ==
    /\ pc[p] = "idle"
    /\ pc' = [pc EXCEPT ![p] = "harvest"]
    /\ script' = [script EXCEPT ![p] = s]
    /\ pre' = [pre EXCEPT ![p] = Store]
    /\ UNCHANGED <<csv, db, fetched, new, master, combined, err>>
    /\ UNCHANGED <<pager, retry, wiki>>

\* A harvest that appends every accepted row to the CSV file as it goes.
HarvestRecordAppends(p, r) ==
    /\ pc[p] = "harvest"
    /\ fetched < MaxFetch
    /\ fetched' = fetched + 1
    /\ new' = [new EXCEPT ![p] = Frame(FALSE, new[p].rows \o Parse(script[p], r))]
    /\ csv' = Table((IF csv.kind = "table" THEN csv.rows ELSE <<>>)
                        \o ToCsv(Parse(script[p], r)).rows)
    /\ UNCHANGED <<db, pc, script, master, combined, err, pre>>
    /\ UNCHANGED <<pager, retry, wiki>>

\* The harvest loop handles one more upstream record: rows.append(row) if
\* the parser accepts it.
HarvestRecord(p, r) ==
    /\ pc[p] = "harvest"
    /\ fetched < MaxFetch
    /\ fetched' = fetched + 1
    /\ new' = [new EXCEPT ![p] = Frame(FALSE, new[p].rows \o Parse(script[p], r))]
    /\ UNCHANGED <<csv, db, pc, script, master, combined, err, pre>>
    /\ UNCHANGED <<pager, retry, wiki>>

\* A request of the harvest fails (raise_for_status, a connection error, the
\* RuntimeError of get_soup): the exception leaves main.
HarvestFail(p) ==
    /\ pc[p] = "harvest"
    /\ pc' = [pc EXCEPT ![p] = "failed"]
    /\ err' = [err EXCEPT ![p] = "upstream"]
    /\ UNCHANGED <<csv, db, fetched, script, new, master, combined, pre>>
    /\ UNCHANGED <<pager, retry, wiki>>

\* The harvest returns pd.DataFrame(rows).  nbuv_sru.fetch_nbuv then adds
\* the work_key column, which for a frame without rows raises or not with
\* the pandas version.
HarvestDone(p) ==
    /\ pc[p] = "harvest"
    /\ \/ /\ new[p].rows # <<>>
          /\ new' = [new EXCEPT ![p] = Frame(TRUE, new[p].rows)]
          /\ pc' = [pc EXCEPT ![p] = "load"]
          /\ UNCHANGED err
       \/ /\ new[p].rows = <<>>
          /\ script[p] # "sru"
          /\ pc' = [pc EXCEPT ![p] = "load"]
          /\ UNCHANGED <<new, err>>
       \/ /\ new[p].rows = <<>>
          /\ script[p] = "sru"
          /\ new' = [new EXCEPT ![p] = Frame(TRUE, <<>>)]
          /\ pc' = [pc EXCEPT ![p] = "load"]
          /\ UNCHANGED err
       \/ /\ new[p].rows = <<>>
          /\ script[p] = "sru"
          /\ pc' = [pc EXCEPT ![p] = "failed"]
          /\ err' = [err EXCEPT ![p] = "harvest"]
          /\ UNCHANGED new
    /\ UNCHANGED <<csv, db, fetched, script, master, combined, pre>>
    /\ UNCHANGED <<pager, retry, wiki>>

\* A load_master that answers an unreadable file with an empty master.
LoadMasterSwallows(p) ==
    /\ pc[p] = "load"
    /\ \E res \in load_master(script[p], csv) :
         /\ pc' = [pc EXCEPT ![p] = "merge"]
         /\ master' = [master EXCEPT ![p] =
                IF res.raised THEN Frame(TRUE, <<>>) ELSE res.frame]
    /\ UNCHANGED <<csv, db, fetched, script, new, combined, pre, err>>
    /\ UNCHANGED <<pager, retry, wiki>>

\* master = load_master()
LoadMaster(p) ==
    /\ pc[p] = "load"
    /\ \E res \in load_master(script[p], csv) :
         IF res.raised
         THEN /\ pc' = [pc EXCEPT ![p] = "failed"]
              /\ err' = [err EXCEPT ![p] = "load"]
              /\ UNCHANGED master
         ELSE /\ pc' = [pc EXCEPT ![p] = "merge"]
              /\ master' = [master EXCEPT ![p] = res.frame]
              /\ UNCHANGED err
    /\ UNCHANGED <<csv, db, fetched, script, new, combined, pre>>
    /\ UNCHANGED <<pager, retry, wiki>>

\* combined = pd.concat([master, new]).drop_duplicates(...).sort_values(...)
\* drop_duplicates("work_key") raises KeyError when neither frame has the
\* column.
Merge(p) ==
    /\ pc[p] = "merge"
    /\ IF ~Concat(master[p], new[p]).hasKey
       THEN /\ pc' = [pc EXCEPT ![p] = "failed"]
            /\ err' = [err EXCEPT ![p] = "merge"]
            /\ UNCHANGED combined
       ELSE /\ \E rows \in Merged(script[p], master[p], new[p]) :
                 combined' = [combined EXCEPT ![p] = Frame(TRUE, rows)]
            /\ pc' = [pc EXCEPT ![p] = "save_csv"]
            /\ UNCHANGED err
    /\ UNCHANGED <<csv, db, fetched, script, new, master, pre>>
    /\ UNCHANGED <<pager, retry, wiki>>

\* A save that appends the merged rows to the CSV file in place of
\* overwriting it.
SaveCsvAppends(p) ==
    /\ pc[p] = "save_csv"
    /\ csv' = Table((IF csv.kind = "table" THEN csv.rows ELSE <<>>)
                        \o ToCsv(combined[p].rows).rows)
    /\ pc' = [pc EXCEPT ![p] = "save_db"]
    /\ UNCHANGED <<db, fetched, script, new, master, combined, err, pre>>
    /\ UNCHANGED <<pager, retry, wiki>>

\* save, first statement: the CSV file is overwritten.
SaveCsv(p) ==
    /\ pc[p] = "save_csv"
    /\ csv' = ToCsv(combined[p].rows)
    /\ pc' = [pc EXCEPT ![p] = "save_db"]
    /\ UNCHANGED <<db, fetched, script, new, master, combined, err, pre>>
    /\ UNCHANGED <<pager, retry, wiki>>

\* to_csv raises (the file cannot be opened, or the write fails after the
\* file was opened for writing and truncated).
SaveCsvFail(p) ==
    /\ pc[p] = "save_csv"
    /\ csv' \in {csv, EmptyFile}
    /\ pc' = [pc EXCEPT ![p] = "failed"]
    /\ err' = [err EXCEPT ![p] = "save_csv"]
    /\ UNCHANGED <<db, fetched, script, new, master, combined, pre>>
    /\ UNCHANGED <<pager, retry, wiki>>

\* save, second statement: the table `combined` is replaced.
SaveDb(p) ==
    /\ pc[p] = "save_db"
    /\ db' = ToSql(combined[p].rows)
    /\ pc' = [pc EXCEPT ![p] = "done"]
    /\ UNCHANGED <<csv, fetched, script, new, master, combined, err, pre>>
    /\ UNCHANGED <<pager, retry, wiki>>

\* sqlite3.connect or to_sql raises (the database is locked or cannot be
\* written); the connection's transaction is rolled back.
SaveDbFail(p) ==
    /\ pc[p] = "save_db"
    /\ pc' = [pc EXCEPT ![p] = "failed"]
    /\ err' = [err EXCEPT ![p] = "save_db"]
    /\ UNCHANGED <<csv, db, fetched, script, new, master, combined, pre>>
    /\ UNCHANGED <<pager, retry, wiki>>

\* The process exits; a later run starts from the persisted store alone.
Exit(p) ==
    /\ pc[p] \in {"done", "failed"}
    /\ pc' = [pc EXCEPT ![p] = "idle"]
    /\ script' = [script EXCEPT ![p] = "none"]
    /\ new' = [new EXCEPT ![p] = NoColumns]
    /\ master' = [master EXCEPT ![p] = NoColumns]
    /\ combined' = [combined EXCEPT ![p] = NoColumns]
    /\ err' = [err EXCEPT ![p] = "none"]
    /\ pre' = [pre EXCEPT ![p] = [csv |-> AbsentFile, db |-> AbsentFile]]
    /\ UNCHANGED <<csv, db, fetched>>
    /\ UNCHANGED <<pager, retry, wiki>>

Run(p) ==
    \/ \E s \in Scripts : Start(p, s)
    \/ \E r \in RawRecords : HarvestRecord(p, r)
    \/ HarvestFail(p)
    \/ HarvestDone(p)
    \/ LoadMaster(p)
    \/ Merge(p)
    \/ SaveCsv(p)
    \/ SaveCsvFail(p)
    \/ SaveDb(p)
    \/ SaveDbFail(p)
    \/ Exit(p)

\* One run at a time (the single-operator batch usage).
Next == \E p \in SeqProcs : Run(p)

Spec == Init /\ [][Next]_vars

\* ================================================================ claims
Ended(p) == pc[p] \in {"done", "failed"}
HasMerged(p) == pc[p] \in {"save_csv", "save_db", "done"}
Keys(rows) == {rows[i].work_key : i \in DOMAIN rows}
RowSet(rows) == {rows[i] : i \in DOMAIN rows}

\* C1: in every merge script, a merged row whose key an existing master row
\* has is that existing master row, all fields unchanged (existing wins).
C1_ExistingWins ==
    \A p \in SeqProcs : HasMerged(p) =>
        \A r \in RowSet(combined[p].rows) :
            r.work_key \in Keys(master[p].rows) => r \in RowSet(master[p].rows)

\* C2: after a completed run the persisted CSV holds at most one row per
\* identity key, the key being recomputed from the persisted author and
\* title as load_master does (through _s where a field is empty).
C2_PersistedKeysUnique ==
    \A p \in SeqProcs : pc[p] = "done" =>
        /\ csv.kind = "table"
        /\ \A i, j \in DOMAIN csv.rows :
             WithKeys("irbis", csv.rows)[i].work_key
                 = WithKeys("irbis", csv.rows)[j].work_key => i = j

\* C3: when a run has ended, either the CSV and the table both hold the
\* merged rows, or both hold what they held before the run.
C3_AllOrNothing ==
    \A p \in SeqProcs : Ended(p) =>
        \/ /\ err[p] \in {"none", "save_csv", "save_db"}
           /\ csv = ToCsv(combined[p].rows)
           /\ db = ToSql(combined[p].rows)
        \/ Store = pre[p]

\* C4: a run whose load_master cannot read or parse the existing CSV never
\* gets past the load, and leaves the CSV and the table as they were.
C4_UnreadableStoreUntouched ==
    \A p \in SeqProcs :
        /\ (pc[p] # "idle" /\ LoadMustRaise(script[p], pre[p].csv)) =>
               /\ Store = pre[p]
               /\ pc[p] \in {"harvest", "load", "failed"}
        /\ (pc[p] = "failed" /\ err[p] = "load") => Store = pre[p]

\* a run failed in load_master on an unparseable CSV, with rows harvested
C4_Witness ==
    \E p \in SeqProcs :
        /\ pc[p] = "failed"
        /\ err[p] = "load"
        /\ pre[p].csv = CorruptFile
        /\ new[p].rows # <<>>

\* C5: nothing is written while the harvest runs, and a run whose harvest
\* raised ends with the store as it was before the run.
C5_NoWriteBeforeHarvestReturns ==
    \A p \in SeqProcs :
        /\ pc[p] = "harvest" => Store = pre[p]
        /\ (pc[p] = "failed" /\ err[p] \in {"upstream", "harvest"}) => Store = pre[p]

\* a harvest that had collected rows raised, over an existing store
C5_Witness ==
    \E p \in SeqProcs :
        /\ pc[p] = "failed"
        /\ err[p] = "upstream"
        /\ new[p].rows # <<>>
        /\ csv.kind = "table"

\* the frame of an empty harvest
EmptyHarvest(s) == IF s = "sru" THEN Frame(TRUE, <<>>) ELSE NoColumns

\* C6: persisting a merge result, loading it back and merging it with an
\* empty harvest gives the same rows in the same order.
C6_MergeIdempotent ==
    \A p \in SeqProcs : pc[p] = "save_csv" =>
        \A res \in load_master(script[p], ToCsv(combined[p].rows)) :
            (~res.raised /\ Concat(res.frame, EmptyHarvest(script[p])).hasKey) =>
                \A rows \in Merged(script[p], res.frame, EmptyHarvest(script[p])) :
                    ToCsv(rows) = ToCsv(combined[p].rows)

\* C7: the keys of the merged output are the keys of the existing store
\* together with the keys of the harvest.
C7_KeysAreUnion ==
    \A p \in SeqProcs : HasMerged(p) =>
        Keys(combined[p].rows) = Keys(master[p].rows) \cup Keys(new[p].rows)

\* a merge of an existing store with a harvest that repeats one of its keys
\* and brings a new one
C7_Witness ==
    \E p \in SeqProcs :
        /\ pc[p] = "save_csv"
        /\ Keys(master[p].rows) \cap Keys(new[p].rows) # {}
        /\ Keys(new[p].rows) \ Keys(master[p].rows) # {}
        /\ Len(new[p].rows) > Cardinality(Keys(new[p].rows))

\* a comes no later than b in ascending order with nulls last
NullsLastLeq(a, b) == b = Null \/ (a # Null /\ a <= b)

AscendingWrittenPublished(rows) ==
    \A i, j \in DOMAIN rows : i < j =>
        /\ NullsLastLeq(rows[i].year_written, rows[j].year_written)
        /\ rows[i].year_written = rows[j].year_written =>
               NullsLastLeq(rows[i].year_published, rows[j].year_published)

AscendingPublished(rows) ==
    \A i, j \in DOMAIN rows : i < j =>
        NullsLastLeq(rows[i].year_published, rows[j].year_published)

\* C8, as stated: after every merge of every script the rows ascend by
\* year_written, nulls last, then by year_published, nulls last.
C8_SortedWrittenPublished ==
    \A p \in SeqProcs : HasMerged(p) => AscendingWrittenPublished(combined[p].rows)

\* C8, amended: nbuv_oai, nbuv_scrape_html, nbuv_sru and nbuv_z3950 order the
\* rows by year_written then year_published, nulls last; nbuv_irbis_scrape
\* orders them by year_published alone, nulls last.
C8_SortedPerScript ==
    \A p \in SeqProcs : HasMerged(p) =>
        IF script[p] = "irbis"
        THEN AscendingPublished(combined[p].rows)
        ELSE AscendingWrittenPublished(combined[p].rows)

\* the scenario: year_written 1750, 1800 and null come out in that order
C8_Witness ==
    \E p \in SeqProcs :
        /\ pc[p] = "save_csv"
        /\ script[p] # "irbis"
        /\ new[p].rows # <<>>
        /\ Len(combined[p].rows) = 3
        /\ combined[p].rows[1].year_written = 1750
        /\ combined[p].rows[2].year_written = 1800
        /\ combined[p].rows[3].year_written = Null

\* C9: no row handed to the merge and no row of the persisted CSV has a
\* year of 0.
C9_NoZeroYear ==
    /\ \A p \in SeqProcs : \A r \in RowSet(new[p].rows) :
           r.year_written # 0 /\ r.year_published # 0
    /\ \A r \in RowSet(csv.rows) : r.year_written # 0 /\ r.year_published # 0

InWindow(y) == y = Null \/ (YEAR_MIN <= y /\ y <= YEAR_MAX)

\* C10: every row handed to the merge has each non-null year within
\* 1700..2024.
C10_YearsInWindow ==
    \A p \in SeqProcs : \A r \in RowSet(new[p].rows) :
        InWindow(r.year_written) /\ InWindow(r.year_published)

\* C11: a store that holds a row with an empty author is loaded by every
\* merge script, and the rows of one title with an empty author collapse
\* into one row, whose key is "|" followed by the title key.
C11_EmptyAuthorCollapses ==
    \A p \in SeqProcs :
        /\ (pc[p] = "failed" /\ err[p] = "load") =>
               ~(/\ pre[p].csv.kind = "table"
                 /\ \E i \in DOMAIN pre[p].csv.rows :
                        /\ pre[p].csv.rows[i].author = <<>>
                        /\ pre[p].csv.rows[i].title # <<>>)
        /\ HasMerged(p) =>
               \A i, j \in DOMAIN combined[p].rows :
                   LET ri == combined[p].rows[i]
                       rj == combined[p].rows[j]
                   IN (/\ CleanStr(ri.author) = <<>>
                       /\ CleanStr(rj.author) = <<>>
                       /\ ri.title = rj.title) =>
                          /\ i = j
                          /\ ri.work_key = normal_key(<<>>, ri.title)

FourColumns == {"title", "author", "year_written", "year_published"}

\* C12: after a successful run the CSV and the table hold exactly the
\* columns title, author, year_written, year_published, and the key of
\* every loaded row is computed from its author and title.
C12_FourColumnsKeyRecomputed ==
    \A p \in SeqProcs :
        /\ pc[p] \in {"save_db", "done"} =>
               /\ csv.kind = "table"
               /\ \A i \in DOMAIN csv.rows : DOMAIN csv.rows[i] = FourColumns
        /\ pc[p] = "done" =>
               /\ db.kind = "table"
               /\ \A i \in DOMAIN db.rows : DOMAIN db.rows[i] = FourColumns
        /\ pc[p] = "merge" =>
               \A i \in DOMAIN master[p].rows :
                   master[p].rows[i].work_key
                       = irbis_key(master[p].rows[i].author, master[p].rows[i].title)

\* a run that loaded rows, harvested rows and saved both files
C12_Witness ==
    \E p \in SeqProcs :
        /\ pc[p] = "done"
        /\ master[p].rows # <<>>
        /\ new[p].rows # <<>>
        /\ Len(csv.rows) > Len(master[p].rows)

\* C13: the key attached to every accepted row is the key of that row's
\* normalized title and author.
C13_KeyOfNormalizedRow ==
    \A p \in SeqProcs : \A r \in RowSet(new[p].rows) :
        r.work_key = normal_key(r.author, r.title)

\* ------------------------------------------- titles of punctuation only
\* Upstream records whose title field holds nothing but the trailing
\* punctuation of a MARC 245$a, next to one ordinary record.
PunctRecords ==
    { Raw(<<" ", "/">>, <<"b">>, <<Y1900>>, <<Y1900>>),
      Raw(<<"a">>, <<"b">>, <<Y1900>>, <<Y1900>>) }

RunPunct(p) ==
    \/ \E s \in Scripts : Start(p, s)
    \/ \E r \in PunctRecords : HarvestRecord(p, r)
    \/ HarvestFail(p)
    \/ HarvestDone(p)
    \/ LoadMaster(p)
    \/ Merge(p)
    \/ SaveCsv(p)
    \/ SaveCsvFail(p)
    \/ SaveDb(p)
    \/ SaveDbFail(p)
    \/ Exit(p)

NextPunct == \E p \in SeqProcs : RunPunct(p)

SpecPunct == Init /\ [][NextPunct]_vars

\* C14: a candidate whose title is empty once trailing punctuation and
\* whitespace are trimmed is rejected: no adapter emits a row with an empty
\* title, and neither file of the store ever holds one.
C14_NoEmptyTitleRow ==
    /\ \A p \in SeqProcs : \A r \in RowSet(new[p].rows) : r.title # <<>>
    /\ \A i \in DOMAIN csv.rows : csv.rows[i].title # <<>>
    /\ \A i \in DOMAIN db.rows : db.rows[i].title # <<>>

\* ------------------------------------------------------ overlapping runs
\* Two processes each run a merge script once over the same store with no
\* lock: their steps interleave freely.
ConcScripts == {"oai", "z3950"}

ConcRecords ==
    { Raw(<<"a">>, <<"b">>, <<Y1900>>, <<Y1900>>),
      Raw(<<"c">>, <<"b">>, <<Y1900>>, <<Y1900>>) }

RunConc(p) ==
    \/ \E s \in ConcScripts : Start(p, s)
    \/ \E r \in ConcRecords : HarvestRecord(p, r)
    \/ HarvestFail(p)
    \/ HarvestDone(p)
    \/ LoadMaster(p)
    \/ Merge(p)
    \/ SaveCsv(p)
    \/ SaveCsvFail(p)
    \/ SaveDb(p)
    \/ SaveDbFail(p)

NextConc == \E p \in AllProcs : RunConc(p)

SpecConc == Init /\ [][NextConc]_vars

\* keys of the rows a file holds
FileKeys(f) == {normal_key(ReadField(f.rows[i].author), ReadField(f.rows[i].title)) :
                    i \in DOMAIN f.rows}

\* C15: nothing guards the store against overlapping runs. When both runs
\* have completed, each file holds the result of one run alone (the last
\* writer of that file), never a merge of the two: the keys that only the
\* other run harvested are missing from it.
C15_LastWriterWins ==
    (\A p \in AllProcs : pc[p] = "done") =>
        /\ \E w \in AllProcs : csv = ToCsv(combined[w].rows)
        /\ \E w \in AllProcs : db = ToSql(combined[w].rows)
        /\ \A w, o \in AllProcs :
               csv = ToCsv(combined[w].rows) =>
                   \A k \in Keys(new[o].rows) \ (Keys(master[w].rows) \cup Keys(new[w].rows)) :
                       k \notin FileKeys(csv)

\* both runs loaded the same store and completed; the CSV holds the result
\* of one run, the table that of the other, and a row one run added is
\* missing from the CSV
C15_Witness ==
    /\ \A p \in AllProcs : pc[p] = "done"
    /\ master[1] = master[2]
    /\ \E w, o \in AllProcs :
           /\ w # o
           /\ csv = ToCsv(combined[w].rows)
           /\ db = ToSql(combined[o].rows)
           /\ ToSql(combined[w].rows) # db
           /\ Keys(new[o].rows) \ FileKeys(csv) # {}

\* --------------------------------- the pagination loop of harvest (irbis)
mergeVars == <<csv, db, fetched, pc, script, new, master, combined, err, pre>>

\* harvest reaches the while loop: start_rec = 1
PagerStart ==
    /\ pager.pc = "idle"
    /\ pager' = [PagerIdle EXCEPT !.pc = "post"]
    /\ UNCHANGED <<mergeVars, retry, wiki>>

\* post_soup with S21STN = start_rec returns a page
PagerPost ==
    /\ pager.pc = "post"
    /\ \E pg \in Pages : pager' = [pager EXCEPT !.pc = "page", !.page = pg]
    /\ UNCHANGED <<mergeVars, retry, wiki>>

\* post_soup raises (timeout, raise_for_status): the exception leaves harvest
PagerPostFail ==
    /\ pager.pc = "post"
    /\ pager' = [pager EXCEPT !.pc = "failed"]
    /\ UNCHANGED <<mergeVars, retry, wiki>>

\* The rest of the loop body without the test next_start <= start_rec.
PagerNextNoGuard ==
    /\ pager.pc = "page"
    /\ LET ns == next_start(pager.page, pager.start_rec) IN
       IF ~pager.page.hits \/ ns = Null \/ ns > SafetyCap
       THEN pager' = [pager EXCEPT !.pc = "done"]
       ELSE pager' = [pager EXCEPT !.pc = "post", !.start_rec = ns,
                                   !.prev = pager.start_rec]
    /\ UNCHANGED <<mergeVars, retry, wiki>>

\* The rest of the loop body: break on a page without hits, when no next
\* start is found, when it does not exceed start_rec or exceeds the cap;
\* otherwise start_rec = next_start.
PagerNext ==
    /\ pager.pc = "page"
    /\ LET ns == next_start(pager.page, pager.start_rec) IN
       IF ~pager.page.hits \/ ns = Null \/ ns <= pager.start_rec \/ ns > SafetyCap
       THEN pager' = [pager EXCEPT !.pc = "done"]
       ELSE pager' = [pager EXCEPT !.pc = "post", !.start_rec = ns,
                                   !.prev = pager.start_rec]
    /\ UNCHANGED <<mergeVars, retry, wiki>>

NextPager == PagerStart \/ PagerPost \/ PagerPostFail \/ PagerNext

\* every request returns or raises, and the loop body then runs on
SpecPager == Init /\ [][NextPager]_vars /\ WF_vars(NextPager)

\* C16: the S21STN of successive POSTs is strictly increasing and never
\* above the cap, and the pagination loop terminates whatever the server
\* answers.
C16_IncreasingAndTerminates ==
    /\ [](pager.pc \in {"post", "page"} =>
              /\ pager.prev < pager.start_rec
              /\ pager.start_rec <= SafetyCap)
    /\ (pager.pc = "post" ~> pager.pc \in {"done", "failed"})

\* the loop stopped at the cap after more than two POSTs
C16_Witness ==
    /\ pager.pc = "done"
    /\ pager.prev > 1
    /\ pager.page.hits
    /\ next_start(pager.page, pager.start_rec) > SafetyCap

\* -------------------------------------------- calls of the retry helpers
\* _run_sparql(query) or get_soup(session, url) is called
RetryCall(f) ==
    /\ retry.pc = "idle"
    /\ retry' = [RetryIdle EXCEPT !.pc = "trying", !.fn = f]
    /\ UNCHANGED <<mergeVars, pager, wiki>>

\* One iteration of the loop of _run_sparql: query().convert() returns the
\* result, or raises (SPARQLWrapper raises for every status but 200) and
\* the exception is caught; after the last iteration RuntimeError is raised.
RunSparqlAttempt ==
    /\ retry.pc = "trying"
    /\ retry.fn = "_run_sparql"
    /\ Len(retry.log) < tries
    /\ \E o \in Outcomes :
         retry' = [retry EXCEPT
             !.log = Append(retry.log, o),
             !.pc = IF o = "200" THEN "returned"
                    ELSE IF Len(retry.log) + 1 = tries THEN "RuntimeError"
                    ELSE "trying"]
    /\ UNCHANGED <<mergeVars, pager, wiki>>

\* One iteration of the loop of get_soup: session.get answers with status
\* 200 and the soup is returned, or with another status and the loop goes
\* on, or it raises and the exception leaves get_soup; after the last
\* iteration RuntimeError is raised.
GetSoupAttempt ==
    /\ retry.pc = "trying"
    /\ retry.fn = "get_soup"
    /\ Len(retry.log) < GetSoupTries
    /\ \E o \in Outcomes :
         retry' = [retry EXCEPT
             !.log = Append(retry.log, o),
             !.pc = IF o = "200" THEN "returned"
                    ELSE IF o = "timeout" THEN "raised"
                    ELSE IF Len(retry.log) + 1 = GetSoupTries THEN "RuntimeError"
                    ELSE "trying"]
    /\ UNCHANGED <<mergeVars, pager, wiki>>

\* the caller goes on with the result or the exception
RetryEnd ==
    /\ retry.pc \in {"returned", "RuntimeError", "raised"}
    /\ retry' = RetryIdle
    /\ UNCHANGED <<mergeVars, pager, wiki>>

NextRetry ==
    \/ \E f \in {"_run_sparql", "get_soup"} : RetryCall(f)
    \/ RunSparqlAttempt
    \/ GetSoupAttempt
    \/ RetryEnd

SpecRetry == Init /\ [][NextRetry]_vars

\* C17: a retry helper makes at most three requests, returns the result of
\* the first successful request without a further one, and raises
\* RuntimeError exactly when every request it made failed.
C17_BoundedRetry ==
    /\ Len(retry.log) <= 3
    /\ retry.pc = "returned" =>
           /\ retry.log[Len(retry.log)] = "200"
           /\ \A i \in 1..(Len(retry.log) - 1) : retry.log[i] # "200"
    /\ retry.pc \in {"returned", "RuntimeError", "raised"} =>
           (retry.pc = "RuntimeError" <=> \A i \in DOMAIN retry.log : retry.log[i] # "200")

\* ------------------------------------------------------ a run of wikidata.py
\* wikidata.py starts: rows = [], the walk begins at 1700
WikiStart ==
    /\ wiki.pc = "idle"
    /\ \E d \in SUBSET WikiWorks :
         wiki' = [WikiIdle EXCEPT !.pc = "walk", !.data = d]
    /\ UNCHANGED <<mergeVars, pager, retry>>

\* One decade of fetch_wikidata: the query returns the works the filter
\* keeps, in an order of the endpoint's choosing, and a row is appended for
\* every binding.
WikiDecade ==
    /\ wiki.pc = "walk"
    /\ \E bs \in Perms({w \in wiki.data : InSlice(w, wiki.start)}) :
         wiki' = [wiki EXCEPT
             !.rows = wiki.rows \o WikiRows(bs),
             !.start = wiki.start + WalkStep,
             !.pc = IF wiki.start + WalkStep < WalkStop THEN "walk" ELSE "save_csv"]
    /\ UNCHANGED <<mergeVars, pager, retry>>

\* _run_sparql raises RuntimeError: the exception leaves wikidata.py
WikiQueryFail ==
    /\ wiki.pc = "walk"
    /\ wiki' = [wiki EXCEPT !.pc = "failed"]
    /\ UNCHANGED <<mergeVars, pager, retry>>

\* save_csv(df_all)
WikiSaveCsv ==
    /\ wiki.pc = "save_csv"
    /\ wiki' = [wiki EXCEPT !.csv = Table(wiki.rows), !.pc = "save_db"]
    /\ UNCHANGED <<mergeVars, pager, retry>>

\* save_sqlite(df_all): the table `wikidata` is replaced
WikiSaveDb ==
    /\ wiki.pc = "save_db"
    /\ wiki' = [wiki EXCEPT !.table = Table(wiki.rows), !.pc = "done"]
    /\ UNCHANGED <<mergeVars, pager, retry>>

NextWiki == WikiStart \/ WikiDecade \/ WikiQueryFail \/ WikiSaveCsv \/ WikiSaveDb

SpecWiki == Init /\ [][NextWiki]_vars

\* C18: the rows wikidata.py saves to wikidata_ukr_lit.csv and to the table
\* `wikidata` are unique: no two saved rows have the same author and title.
C18_SavedRowsUnique ==
    /\ \A i, j \in DOMAIN wiki.csv.rows :
         (/\ wiki.csv.rows[i].author = wiki.csv.rows[j].author
          /\ wiki.csv.rows[i].title = wiki.csv.rows[j].title) => i = j
    /\ \A i, j \in DOMAIN wiki.table.rows :
         (/\ wiki.table.rows[i].author = wiki.table.rows[j].author
          /\ wiki.table.rows[i].title = wiki.table.rows[j].title) => i = j

====
